---- MODULE Spec2Model ----
(***************************************************************************)
(* Model of sankey.py: the pipeline main() runs,                           *)
(*   process_conditions_data -> calculate_total_and_average_time           *)
(*   -> create_sankey_diagram,                                             *)
(* over a CSV file read with csv.DictReader.                               *)
(*                                                                         *)
(* Python values are modelled as follows.                                  *)
(*   - a CSV cell of the START column is a record [cell, at]: cell says    *)
(*     what the text is ("iso": ISO text of the instant `at`, in hours     *)
(*     since an epoch; "malformed": text fromisoformat rejects; "None":    *)
(*     the restval DictReader gives a field a short row does not have);    *)
(*   - a datetime is the same record with cell = "iso"; None is NoDate;    *)
(*   - str values are strings, None among them is the string None;         *)
(*   - a dict is the sequence of its items in insertion order;             *)
(*   - a float quotient is the exact fraction in lowest terms.             *)
(***************************************************************************)
EXTENDS Integers, Sequences, FiniteSets, TLC

VARIABLES fieldnames, rows, pc, i,
          previous_start_date, previous_description, previous_patient,
          journey_time_diffs, times,
          k, labels, source, target, value, colors, label_map,
          figure, written

vars == <<fieldnames, rows, pc, i,
          previous_start_date, previous_description, previous_patient,
          journey_time_diffs, times,
          k, labels, source, target, value, colors, label_map,
          figure, written>>

(***************************************************************************)
(* Bounds of the input space.                                              *)
(***************************************************************************)
MaxRows == 3
MaxStamp == 2
StampStep == 18
MaxLong == 9
MaxOrder == 5

(***************************************************************************)
(* Program constants.                                                      *)
(***************************************************************************)
HoursPerDay == 24

color_palette ==
  <<"#0077BB", "#33BBEE", "#009988", "#EE7733", "#CC3311", "#EE3377", "#BBBBBB">>

Columns == {"START", "PATIENT", "DESCRIPTION"}

None == "None"

NoDate == [cell |-> "None", at |-> 0]

IsoText(h) == [cell |-> "iso", at |-> h]

Malformed == [cell |-> "malformed", at |-> 0]

(***************************************************************************)
(* Input space: the files main() may be pointed at.                        *)
(***************************************************************************)
Patients == {"P1", "P2"}

Descs == {"A", "B"}

LongDescs == {"A", "B", "C"}

Stamps == {StampStep * n : n \in 0..MaxStamp}

Row(s, p, d) == [START |-> s, PATIENT |-> p, DESCRIPTION |-> d]

ValidRows == {Row(IsoText(h), p, d) : h \in Stamps, p \in Patients, d \in Descs}

\* rows with one defect: text that is no timestamp, or a short row (the
\* fields it does not reach are None)
DefectRows ==
  {Row(Malformed, "P1", "A"), Row(NoDate, "P1", "A"),
   Row(IsoText(StampStep), None, "A"), Row(IsoText(StampStep), "P1", None),
   Row(IsoText(StampStep), None, None)}

\* the sound rows that stand around a defective one
ContextRows ==
  {Row(IsoText(0), "P1", "A"), Row(IsoText(StampStep), "P1", "B"),
   Row(IsoText(0), "P2", "A")}

SeqsUpTo(S, n) == UNION {[1..m -> S] : m \in 0..n}

\* every stream of sound rows, up to the names of the first patient and of
\* the first description
ShortStreams ==
  {s \in SeqsUpTo(ValidRows, MaxRows) :
     Len(s) > 0 => s[1].PATIENT = "P1" /\ s[1].DESCRIPTION = "A"}

DefectStreams ==
  {s \in SeqsUpTo(ContextRows \cup DefectRows, MaxRows) :
     \E j \in 1..Len(s) : s[j] \in DefectRows}

PairsOf(ds) == {<<ds[j], ds[j + 1]>> : j \in 1..(Len(ds) - 1)}

\* the instant of the j-th record of a stream whose records come at growing
\* intervals
StampAt(j) == StampStep * j * j

\* longer streams of two patients, for the order of the transitions
OrderStreams ==
  {[j \in 1..Len(pd) |-> Row(IsoText(StampAt(j)), pd[j][1], pd[j][2])] :
     pd \in {e \in SeqsUpTo(Patients \X Descs, MaxOrder) :
               Len(e) > MaxRows /\ e[1] = <<"P1", "A">>}}

\* one patient, enough distinct transitions to go round the palette
LongStreams ==
  {[j \in 1..MaxLong |-> Row(IsoText(StampAt(j)), "P1", ds[j])] :
     ds \in {e \in [1..MaxLong -> LongDescs] :
               /\ e[1] = "A"
               /\ Cardinality(PairsOf(e)) > Len(color_palette)}}

\* the scenario of the specification, section 8
ScenarioRows ==
  << Row(IsoText(0), "P1", "A"), Row(IsoText(4 * HoursPerDay), "P1", "B"),
     Row(IsoText(0), "P2", "C"), Row(IsoText(HoursPerDay), "P2", "D") >>

Streams ==
  ShortStreams \cup OrderStreams \cup DefectStreams \cup LongStreams
    \cup {ScenarioRows}

\* a file whose header lacks a column, with its rows
HeaderStreams == SeqsUpTo(ValidRows, 1)

(***************************************************************************)
(* process_conditions_data                                                 *)
(***************************************************************************)
\* row[col]: KeyError when the header has no such column
RowRaises(names, row) ==
  \/ "START" \notin names
  \/ row.START.cell # "iso"
  \/ "PATIENT" \notin names
  \/ "DESCRIPTION" \notin names

fromisoformat(text) == IsoText(text.at)

\* faulty variant of Days: the difference rounded to the nearest day
DaysRounded(start_date, prev) ==
  (start_date.at - prev.at + HoursPerDay \div 2) \div HoursPerDay

\* (start_date - previous_start_date).days
Days(start_date, prev) == (start_date.at - prev.at) \div HoursPerDay

\* faulty variant of Emits: the patient is not compared
EmitsAnyPatient(prev_start, prev_patient, patient) == prev_start # NoDate

\* line 29: previous_start_date is not None and previous_patient == patient
Emits(prev_start, prev_patient, patient) ==
  prev_start # NoDate /\ prev_patient = patient

Keys(d) == [n \in 1..Len(d) |-> d[n].key]

KeySet(d) == {d[n].key : n \in 1..Len(d)}

Find(d, key) == CHOOSE n \in 1..Len(d) : d[n].key = key

\* faulty variant of AppendDiff: a key seen again moves to the end
AppendDiffMoveToEnd(d, key, diff) ==
  IF key \in KeySet(d)
  THEN SelectSeq(d, LAMBDA e : e.key # key)
         \o <<[key |-> key, diffs |-> Append(d[Find(d, key)].diffs, diff)]>>
  ELSE Append(d, [key |-> key, diffs |-> <<diff>>])

\* journey_time_diffs[journey_key].append(time_diff), on a defaultdict(list)
AppendDiff(d, key, diff) ==
  IF key \in KeySet(d)
  THEN [d EXCEPT ![Find(d, key)].diffs = Append(@, diff)]
  ELSE Append(d, [key |-> key, diffs |-> <<diff>>])

\* no figure has been made yet
NoFigure ==
  [node |-> [label |-> <<>>, color |-> <<>>],
   link |-> [source |-> <<>>, target |-> <<>>, value |-> <<>>, color |-> <<>>]]

Init ==
  /\ \/ fieldnames = Columns /\ rows \in Streams
     \/ fieldnames \in {Columns \ {c} : c \in Columns} /\ rows \in HeaderStreams
  /\ pc = "extract"
  /\ i = 1
  /\ previous_start_date = NoDate
  /\ previous_description = None
  /\ previous_patient = None
  /\ journey_time_diffs = <<>>
  /\ times = <<>>
  /\ k = 1
  /\ labels = <<>>
  /\ source = <<>>
  /\ target = <<>>
  /\ value = <<>>
  /\ colors = <<>>
  /\ label_map = <<>>
  /\ figure = NoFigure
  /\ written = FALSE

\* one iteration of the loop over the reader
ExtractRow ==
  /\ pc = "extract"
  /\ i <= Len(rows)
  /\ ~RowRaises(fieldnames, rows[i])
  /\ LET start_date == fromisoformat(rows[i].START)
         patient == rows[i].PATIENT
         description == rows[i].DESCRIPTION
     IN /\ journey_time_diffs' =
             IF Emits(previous_start_date, previous_patient, patient)
             THEN AppendDiff(journey_time_diffs,
                             <<previous_description, description>>,
                             Days(start_date, previous_start_date))
             ELSE journey_time_diffs
        /\ previous_start_date' = start_date
        /\ previous_description' = description
        /\ previous_patient' = patient
  /\ i' = i + 1
  /\ UNCHANGED <<fieldnames, rows, pc, times, k, labels, source, target,
                 value, colors, label_map, figure, written>>

\* fromisoformat or row[...] raises: nothing catches it, main() ends
ExtractRaise ==
  /\ pc = "extract"
  /\ i <= Len(rows)
  /\ RowRaises(fieldnames, rows[i])
  /\ pc' = "error"
  /\ UNCHANGED <<fieldnames, rows, i, previous_start_date,
                 previous_description, previous_patient, journey_time_diffs,
                 times, k, labels, source, target, value, colors, label_map,
                 figure, written>>

\* the reader is exhausted: return journey_time_diffs
ExtractReturn ==
  /\ pc = "extract"
  /\ i > Len(rows)
  /\ pc' = "aggregate"
  /\ UNCHANGED <<fieldnames, rows, i, previous_start_date,
                 previous_description, previous_patient, journey_time_diffs,
                 times, k, labels, source, target, value, colors, label_map,
                 figure, written>>

(***************************************************************************)
(* calculate_total_and_average_time                                        *)
(***************************************************************************)
RECURSIVE SumFrom(_, _, _)
SumFrom(acc, xs, n) ==
  IF n > Len(xs) THEN acc ELSE SumFrom(acc + xs[n], xs, n + 1)

\* faulty variant of sum: the first observation is left out
sumSkippingFirst(xs) == SumFrom(0, xs, 2)

\* the builtin sum: 0 + xs[1] + xs[2] + ...
sum(xs) == SumFrom(0, xs, 1)

Abs(x) == IF x < 0 THEN -x ELSE x

RECURSIVE Gcd(_, _)
Gcd(a, b) == IF b = 0 THEN a ELSE Gcd(b, a % b)

\* faulty variant of TrueDiv: integer division
FloorDiv(a, b) == [num |-> a \div b, den |-> 1]

\* a / b on ints, b # 0: the quotient as a fraction in lowest terms
TrueDiv(a, b) ==
  LET g == Gcd(Abs(a), Abs(b))
      sgn == IF b < 0 THEN -1 ELSE 1
  IN [num |-> sgn * (a \div g), den |-> sgn * (b \div g)]

Zero == [num |-> 0, den |-> 1]

average_time(total_time, time_diffs) ==
  IF Len(time_diffs) # 0 THEN TrueDiv(total_time, Len(time_diffs)) ELSE Zero

\* d[key] = val on a dict: a new key goes last, an old one keeps its place
SetItem(d, key, val) ==
  IF key \in KeySet(d)
  THEN [d EXCEPT ![Find(d, key)] = [key |-> key] @@ val]
  ELSE Append(d, [key |-> key] @@ val)

RECURSIVE CalcFrom(_, _, _)
CalcFrom(acc, d, n) ==
  IF n > Len(d) THEN acc
  ELSE LET total_time == sum(d[n].diffs)
       IN CalcFrom(SetItem(acc, d[n].key,
                           [average |-> average_time(total_time, d[n].diffs),
                            total |-> total_time]),
                   d, n + 1)

calculate_total_and_average_time(d) == CalcFrom(<<>>, d, 1)

Aggregate ==
  /\ pc = "aggregate"
  /\ times' = calculate_total_and_average_time(journey_time_diffs)
  /\ pc' = "build"
  /\ UNCHANGED <<fieldnames, rows, i, previous_start_date,
                 previous_description, previous_patient, journey_time_diffs,
                 k, labels, source, target, value, colors, label_map,
                 figure, written>>

(***************************************************************************)
(* create_sankey_diagram                                                   *)
(***************************************************************************)
\* faulty variant of Register: the membership test is missing
RegisterAlways(reg, cond) ==
  <<Append(reg[1], cond),
    [c \in DOMAIN reg[2] \cup {cond} |->
       IF c = cond THEN Len(reg[1]) ELSE reg[2][c]]>>

\* if cond not in label_map: label_map[cond] = len(labels); labels.append(cond)
\* on the pair <<labels, label_map>>
Register(reg, cond) ==
  IF cond \in DOMAIN reg[2]
  THEN reg
  ELSE <<Append(reg[1], cond), (cond :> Len(reg[1])) @@ reg[2]>>

\* faulty variant of RegisterBoth: the target is looked at first
RegisterBothTargetFirst(reg, from_cond, to_cond) ==
  Register(Register(reg, to_cond), from_cond)

\* for cond in [from_cond, to_cond]: ...
RegisterBoth(reg, from_cond, to_cond) ==
  Register(Register(reg, from_cond), to_cond)

\* faulty variant of LinkColor: the cycle is one short
LinkColorShortCycle(n) == color_palette[(n % (Len(color_palette) - 1)) + 1]

\* color_palette[i % len(color_palette)], i counting from 0
LinkColor(n) == color_palette[(n % Len(color_palette)) + 1]

\* go.Sankey(node=dict(label=labels, color=colors), link=dict(...))
Sankey(ls, src, tgt, val, cols) ==
  [node |-> [label |-> ls, color |-> cols],
   link |-> [source |-> src, target |-> tgt, value |-> val, color |-> cols]]

\* one iteration of the loop over journey_data.items()
BuildLink ==
  /\ pc = "build"
  /\ k <= Len(times)
  /\ LET from_cond == times[k].key[1]
         to_cond == times[k].key[2]
         reg == RegisterBoth(<<labels, label_map>>, from_cond, to_cond)
     IN /\ labels' = reg[1]
        /\ label_map' = reg[2]
        /\ source' = Append(source, reg[2][from_cond])
        /\ target' = Append(target, reg[2][to_cond])
        /\ value' = Append(value, times[k].total)
        /\ colors' = Append(colors, LinkColor(k - 1))
  /\ k' = k + 1
  /\ UNCHANGED <<fieldnames, rows, pc, i, previous_start_date,
                 previous_description, previous_patient, journey_time_diffs,
                 times, figure, written>>

\* go.Figure, update_layout, write_html, show
Render ==
  /\ pc = "build"
  /\ k > Len(times)
  /\ figure' = Sankey(labels, source, target, value, colors)
  /\ written' = TRUE
  /\ pc' = "done"
  /\ UNCHANGED <<fieldnames, rows, i, previous_start_date,
                 previous_description, previous_patient, journey_time_diffs,
                 times, k, labels, source, target, value, colors, label_map>>

Next ==
  \/ ExtractRow
  \/ ExtractRaise
  \/ ExtractReturn
  \/ Aggregate
  \/ BuildLink
  \/ Render

Spec == Init /\ [][Next]_vars
(***************************************************************************)
(* What the properties are stated with: the stream itself, never the       *)
(* extractor's previous-record slot.                                       *)
(***************************************************************************)
\* the rows the loop has gone through
Processed == i - 1

\* row j and the row right before it are of one patient
SamePatient(j) == rows[j - 1].PATIENT = rows[j].PATIENT

KeyAt(j) == <<rows[j - 1].DESCRIPTION, rows[j].DESCRIPTION>>

\* the adjacencies, among the rows gone through, that are of one patient
Adjacent == {j \in 2..Processed : SamePatient(j)}

ObsCount(d) == Cardinality(UNION {{n} \X (1..Len(d[n].diffs)) : n \in 1..Len(d)})

\* the whole days in h hours, h >= 0, by their definition
WholeDays(h) ==
  CHOOSE d \in 0..h : d * HoursPerDay <= h /\ h < (d + 1) * HoursPerDay

RECURSIVE SumOver(_, _)
SumOver(S, f) ==
  IF S = {} THEN 0
  ELSE LET x == CHOOSE y \in S : TRUE IN f[x] + SumOver(S \ {x}, f)

DiffsOf(key) == journey_time_diffs[Find(journey_time_diffs, key)].diffs

Aggregated == pc \in {"build", "done"}

\* C1: an observation is appended for row j exactly when row j has a
\* predecessor of the same patient: the observations under a key are as many
\* as the adjacent same-patient pairs with that key, no key has others, and
\* all observations together are as many as the adjacent same-patient pairs
\* (none for P1, P2, P1).
C1_AdjacentSamePatientOnly ==
  /\ ObsCount(journey_time_diffs) = Cardinality(Adjacent)
  /\ KeySet(journey_time_diffs) = {KeyAt(j) : j \in Adjacent}
  /\ \A n \in 1..Len(journey_time_diffs) :
       Len(journey_time_diffs[n].diffs) =
         Cardinality({j \in Adjacent : KeyAt(j) = journey_time_diffs[n].key})

\* P1, P2, P1 has been gone through and nothing was emitted
C1_Witness ==
  /\ Processed = 3
  /\ rows[1].PATIENT = rows[3].PATIENT
  /\ rows[2].PATIENT # rows[1].PATIENT
  /\ journey_time_diffs = <<>>

\* C2: for an adjacent same-patient pair in time order, the observation is
\* under the key (earlier description, later description), is the whole days
\* of the difference (0 below 24 hours) and is not negative.
C2_WholeDaysUnderOrderedKey ==
  \A j \in Adjacent :
    LET h == rows[j].START.at - rows[j - 1].START.at
        nth == Cardinality({l \in Adjacent : l <= j /\ KeyAt(l) = KeyAt(j)})
    IN h >= 0 =>
         /\ KeyAt(j) \in KeySet(journey_time_diffs)
         /\ nth <= Len(DiffsOf(KeyAt(j)))
         /\ DiffsOf(KeyAt(j))[nth] = WholeDays(h)
         /\ DiffsOf(KeyAt(j))[nth] >= 0

\* a pair less than a day apart, of two descriptions: 0 days under its key
C2_Witness ==
  \E j \in Adjacent :
    /\ rows[j].START.at - rows[j - 1].START.at \in 1..(HoursPerDay - 1)
    /\ rows[j].DESCRIPTION # rows[j - 1].DESCRIPTION
    /\ DiffsOf(KeyAt(j)) = <<0>>

Permuted(xs, p) == [n \in 1..Len(xs) |-> xs[p[n]]]

\* C3: the total of a key is the sum of the observations under the key, and
\* the aggregator gives the same total for the observations in any order.
C3_TotalIsOrderFreeSum ==
  Aggregated =>
    \A n \in 1..Len(times) :
      LET obs == DiffsOf(times[n].key)
      IN /\ times[n].total = SumOver(1..Len(obs), obs)
         /\ \A p \in Permutations(1..Len(obs)) :
              calculate_total_and_average_time(
                <<[key |-> times[n].key, diffs |-> Permuted(obs, p)]>>)[1].total
                = times[n].total

\* a key with a negative observation and a different one beside it
C3_Witness ==
  /\ Aggregated
  /\ \E n \in 1..Len(times) :
       LET obs == DiffsOf(times[n].key)
       IN /\ Len(obs) >= 2
          /\ \E a, b \in 1..Len(obs) : obs[a] < 0 /\ obs[b] # obs[a]

\* C4: every key of the observation map has an observation, and the average
\* of a key is its total over its count, undivided remainder and all.
C4_AverageIsTotalOverCount ==
  /\ \A n \in 1..Len(journey_time_diffs) : Len(journey_time_diffs[n].diffs) >= 1
  /\ Aggregated =>
       \A n \in 1..Len(times) :
         LET count == Len(DiffsOf(times[n].key))
         IN /\ times[n].average.den > 0
            /\ times[n].average.num * count = times[n].total * times[n].average.den

\* a total its count does not divide
C4_Witness ==
  /\ Aggregated
  /\ \E n \in 1..Len(times) :
       times[n].total % Len(DiffsOf(times[n].key)) # 0

\* the links the builder has made
Built == k - 1

\* the descriptions at either end of the first n transitions
Endpoints(n) ==
  {times[m].key[1] : m \in 1..n} \cup {times[m].key[2] : m \in 1..n}

\* where a description first stands in from1, to1, from2, to2, ...
FirstSight(c) ==
  CHOOSE q \in 1..(2 * Len(times)) :
    /\ times[(q + 1) \div 2].key[2 - (q % 2)] = c
    /\ \A r \in 1..(q - 1) : times[(r + 1) \div 2].key[2 - (r % 2)] # c

\* C5: after any number of transitions, labels holds each description once,
\* label_map gives each its place in labels, and labels holds exactly the
\* descriptions at either end of the transitions gone through (so at most
\* two per transition).
C5_LabelRegistry ==
  /\ \A a, b \in 1..Len(labels) : labels[a] = labels[b] => a = b
  /\ DOMAIN label_map = {labels[a] : a \in 1..Len(labels)}
  /\ \A a \in 1..Len(labels) : label_map[labels[a]] = a - 1
  /\ {labels[a] : a \in 1..Len(labels)} = Endpoints(Built)
  /\ Len(labels) = Cardinality(Endpoints(Built))
  /\ Len(labels) <= 2 * Built

\* two transitions gone through that share both their descriptions
C5_Witness ==
  /\ Built >= 2
  /\ \E m, n \in 1..Built : m # n /\ times[m].key = <<times[n].key[2], times[n].key[1]>>
  /\ Len(labels) < 2 * Built

\* C6: the k-th transition makes the k-th link, from the index of its first
\* description to the index of its second, valued by its total; indices are
\* given in the order of first sight, the source before the target, and all
\* are indices into labels; the scenario gives [A,B,C,D], (0,1,4), (2,3,1).
C6_LinksFollowTransitions ==
  /\ Len(source) = Built /\ Len(target) = Built /\ Len(value) = Built
  /\ \A n \in 1..Built :
       /\ source[n] \in 0..(Len(labels) - 1)
       /\ target[n] \in 0..(Len(labels) - 1)
       /\ labels[source[n] + 1] = times[n].key[1]
       /\ labels[target[n] + 1] = times[n].key[2]
       /\ value[n] = times[n].total
  /\ \A a, b \in 1..Len(labels) :
       a < b => FirstSight(labels[a]) < FirstSight(labels[b])
  /\ (rows = ScenarioRows /\ pc = "done") =>
       /\ labels = <<"A", "B", "C", "D">>
       /\ source = <<0, 2>>
       /\ target = <<1, 3>>
       /\ value = <<4, 1>>
       /\ figure.link.source = source
       /\ figure.link.target = target
       /\ figure.link.value = value

\* the scenario has run to its end
C6_Witness == rows = ScenarioRows /\ pc = "done" /\ fieldnames = Columns

\* C7: the node colours handed to the renderer are one per node.
C7_NodeColourPerNode ==
  pc = "done" => Len(figure.node.color) = Len(figure.node.label)

\* a record lacks a field: its column is not in the header, or the row is
\* too short to reach it
Lacks(row) ==
  \/ fieldnames # Columns
  \/ row.START.cell = "None"
  \/ row.PATIENT = None
  \/ row.DESCRIPTION = None

Defective(j) == Lacks(rows[j]) \/ rows[j].START.cell = "malformed"

FirstDefect ==
  CHOOSE j \in 1..Len(rows) : Defective(j) /\ \A l \in 1..(j - 1) : ~Defective(l)

\* C8: a record with an unparsable timestamp or without a required field
\* stops the pipeline at that record: no mapping is returned, nothing is
\* aggregated or built, nothing is written.
C8_DefectIsFatal ==
  (\E j \in 1..Len(rows) : Defective(j)) =>
    /\ pc \in {"extract", "error"}
    /\ i <= FirstDefect
    /\ pc = "error" => i = FirstDefect
    /\ times = <<>> /\ Built = 0 /\ ~written

\* What does hold of the code: a START that is no timestamp, and a column
\* the header does not have, stop the pipeline at the first such row.
RaisesAt(j) == fieldnames # Columns \/ rows[j].START.cell # "iso"

StartDefectIsFatal ==
  \A j \in 1..Len(rows) :
    (RaisesAt(j) /\ \A l \in 1..(j - 1) : ~RaisesAt(l)) =>
      /\ pc \in {"extract", "error"}
      /\ i <= j
      /\ pc = "error" => i = j
      /\ times = <<>> /\ Built = 0 /\ ~written

\* the transitions of the rows gone through, by their first occurrence
FirstAt(key) == CHOOSE j \in Adjacent : KeyAt(j) = key /\ \A l \in Adjacent : l < j => KeyAt(l) # key

\* C9: the keys of the observation map stand in the order in which the
\* pairs are first seen, the stats map has them in the same order, and so
\* have the links; (A,B) and (B,A) are two keys, a pair seen again stays
\* where it is.
C9_FirstSeenOrderThroughout ==
  /\ \A a, b \in 1..Len(journey_time_diffs) :
       a < b => FirstAt(journey_time_diffs[a].key) < FirstAt(journey_time_diffs[b].key)
  /\ KeySet(journey_time_diffs) = {KeyAt(j) : j \in Adjacent}
  /\ Aggregated => Keys(times) = Keys(journey_time_diffs)
  /\ \A n \in 1..Built :
       <<labels[source[n] + 1], labels[target[n] + 1]>> = journey_time_diffs[n].key
  /\ (/\ Processed = 3 /\ Len(rows) = 3 /\ SamePatient(2) /\ SamePatient(3)
      /\ [j \in 1..3 |-> rows[j].DESCRIPTION] = <<"A", "B", "A">>) =>
       /\ Keys(journey_time_diffs) = << <<"A", "B">>, <<"B", "A">> >>
       /\ Len(journey_time_diffs[1].diffs) = 1
       /\ Len(journey_time_diffs[2].diffs) = 1

\* A, B, A, B of one patient: (A,B) is seen again after (B,A), and all is built
C9_Witness ==
  /\ pc = "done"
  /\ Len(journey_time_diffs) = 2
  /\ Keys(journey_time_diffs) = << <<"A", "B">>, <<"B", "A">> >>
  /\ Len(journey_time_diffs[1].diffs) = 2
  /\ KeyAt(Len(rows)) = <<"A", "B">>
  /\ Built = 2

\* C10: the colour of the k-th link (from 0) is entry k mod 7 of the palette
\* of 7, whatever the link; the 8th link has the colour of the 1st; there
\* are as many colours as links.
C10_ColourByPosition ==
  /\ Len(color_palette) = 7
  /\ Len(colors) = Built /\ Len(colors) = Len(source)
  /\ \A n \in 1..Len(colors) : colors[n] = color_palette[((n - 1) % 7) + 1]
  /\ Len(colors) >= 8 => colors[8] = colors[1]
  /\ pc = "done" => figure.link.color = colors

\* eight links, the 8th between other descriptions than the 1st
C10_Witness ==
  /\ pc = "done"
  /\ Len(colors) >= 8
  /\ <<source[8], target[8]>> # <<source[1], target[1]>>
  /\ \A a, b \in 1..7 : colors[a] = colors[b] => a = b
====
